---------------------------- MODULE Spec2Model ----------------------------
(***************************************************************************)
(* Model of odoo-confutil: confutil/confutil.py and                        *)
(* confutil/account_setup.py.                                              *)
(*                                                                         *)
(* The library is a set of synchronous helper functions that run against   *)
(* the host's object registry (search / create / write / default_get /     *)
(* execute).  The state of the model is the host database the functions    *)
(* act on, together with a record of the library call made last: its name  *)
(* and arguments, the host calls it issued in order, and how it ended      *)
(* (return value or raised condition).                                     *)
(*                                                                         *)
(* Python values: False is 0 and True is 1 (False == 0 and True == 1 hold  *)
(* in Python, and '%d' % False is '0'); None is the value None below,      *)
(* which is no record id and not False.  In a slot that otherwise holds a  *)
(* string (a group name), Python's False is written PyFalse.               *)
(***************************************************************************)
EXTENDS Integers, Sequences, FiniteSets, TLC

VARIABLES
    db,        \* registry: model name -> set of rows [id, vals]
    seq,       \* model name -> id the host gives the next created row
    unconf,    \* ids of the companies the host reports as unconfigured
    last,      \* the library call made last: [op, args]
    calls,     \* host calls and raised lookup conditions of that call, in order
    result,    \* how that call ended: [exc, val]
    ncalls     \* number of library calls made so far

vars == <<db, seq, unconf, last, calls, result, ncalls>>

(***************************************************************************)
(* Bounds                                                                  *)
(***************************************************************************)
MaxCalls == 3

(***************************************************************************)
(* Python values                                                           *)
(***************************************************************************)
None == -1
False == 0
True == 1
PyFalse == "False"

\* Truth value of an id, a number or None (if code_digits:, if company:)
Truthy(v) == v # None /\ v # 0

\* Truth value of a group name or False (if group_name:)
TruthyName(s) == s # PyFalse /\ s # ""

\* The empty dictionary
EmptyDict == [k \in {} |-> 0]

\* dict.update: d overlaid by c, the values of c win
Update(d, c) ==
    [k \in (DOMAIN d) \cup (DOMAIN c) |-> IF k \in DOMAIN c THEN c[k] ELSE d[k]]

\* dictionary d without key k (dict.pop, for what is left)
Without(d, k) == [j \in (DOMAIN d) \ {k} |-> d[j]]

Digit(d) ==
    CASE d = 0 -> "0" [] d = 1 -> "1" [] d = 2 -> "2" [] d = 3 -> "3"
      [] d = 4 -> "4" [] d = 5 -> "5" [] d = 6 -> "6" [] d = 7 -> "7"
      [] d = 8 -> "8" [] d = 9 -> "9"

\* '%d' % n for n >= 0: the decimal digits of n
RECURSIVE FormatD(_)
FormatD(n) == IF n < 10 THEN Digit(n) ELSE FormatD(n \div 10) \o Digit(n % 10)

\* str.startswith
StartsWith(s, p) == Len(s) >= Len(p) /\ SubSeq(s, 1, Len(p)) = p

\* The elements of a finite set of integers as a list in increasing order
RECURSIVE SortedSeq(_)
SortedSeq(S) ==
    IF S = {} THEN <<>>
    ELSE LET m == CHOOSE x \in S : \A y \in S : x <= y
         IN <<m>> \o SortedSeq(S \ {m})

(***************************************************************************)
(* Conditions raised by the library                                        *)
(***************************************************************************)
NoError == ""
WrongNumberOfRecordsError == "WrongNumberOfRecordsError"
TooManyRecordsError == "TooManyRecordsError"
NoRecordsError == "NoRecordsError"
KeyError == "KeyError"

\* class X(Base): the base class of each condition
BaseClass(e) ==
    CASE e = TooManyRecordsError -> WrongNumberOfRecordsError
      [] e = NoRecordsError -> WrongNumberOfRecordsError
      [] OTHER -> "Exception"

\* isinstance(e, c) / except c: e is c or a subclass of it
IsInstance(e, c) == e = c \/ BaseClass(e) = c \/ (e # NoError /\ c = "Exception")

(***************************************************************************)
(* The host: a threaded record h = [db, seq, unconf, calls]                *)
(***************************************************************************)
Host(d, s, u, c) == [db |-> d, seq |-> s, unconf |-> u, calls |-> c]

\* An entry of the call record
Call(op, model, ids, arg) == [op |-> op, model |-> model, ids |-> ids, arg |-> arg]

Log(h, op, model, ids, arg) ==
    [h EXCEPT !.calls = Append(@, Call(op, model, ids, arg))]

\* How a function ends
Return(h, v) == [h |-> h, exc |-> NoError, val |-> v]
Raise(h, e) ==
    [h |-> [h EXCEPT !.calls = Append(@, Call("raise", e, <<>>, EmptyDict))],
     exc |-> e, val |-> None]
\* an exception passing through a caller unchanged
Propagate(r) == r

\* A domain is a list of conditions <<field, "=", value>>; a row matches when
\* it meets every condition
Matches(row, domain) ==
    \A i \in 1..Len(domain) :
        /\ domain[i][1] \in DOMAIN row.vals
        /\ row.vals[domain[i][1]] = domain[i][3]

\* model.search: the ids of the matching rows, in id order
HostSearch(h, model, domain) ==
    SortedSeq({row.id : row \in {r \in h.db[model] : Matches(r, domain)}})

\* model.create: a new row with the next id of the model
HostCreate(h, model, data) ==
    LET id == h.seq[model]
    IN [h |-> Log([h EXCEPT !.db[model] = @ \cup {[id |-> id, vals |-> data]},
                            !.seq[model] = @ + 1],
                  "create", model, <<id>>, data),
        id |-> id]

\* model.write: the named fields of the rows with these ids are overwritten
HostWrite(h, model, ids, values) ==
    LET idset == {ids[i] : i \in 1..Len(ids)}
    IN Log([h EXCEPT !.db[model] =
                {IF row.id \in idset
                 THEN [row EXCEPT !.vals = Update(@, values)]
                 ELSE row : row \in @}],
           "write", model, ids, values)

\* model.unlink: the rows with these ids are deleted
HostUnlink(h, model, ids) ==
    LET idset == {ids[i] : i \in 1..Len(ids)}
    IN Log([h EXCEPT !.db[model] = {row \in @ : row.id \notin idset}],
           "unlink", model, ids, EmptyDict)

(***************************************************************************)
(* class Lookup                                                            *)
(***************************************************************************)
\* A faulty Lookup.maybe_id: the cardinality check is off by one
maybe_id_LenAtLeastOne(h, model, domain) ==
    LET ids == HostSearch(h, model, domain)
        h1 == Log(h, "search", model, ids, domain)
    IN IF Len(ids) >= 1 THEN Raise(h1, TooManyRecordsError)
       ELSE Return(h1, None)

\* A faulty Lookup.maybe_id: with several matches the first is returned
maybe_id_ReturnsFirst(h, model, domain) ==
    LET ids == HostSearch(h, model, domain)
        h1 == Log(h, "search", model, ids, domain)
    IN IF Len(ids) = 0 THEN Return(h1, None) ELSE Return(h1, ids[1])

\* Lookup.maybe_id
maybe_id(h, model, domain) ==
    LET ids == HostSearch(h, model, domain)
        h1 == Log(h, "search", model, ids, domain)
    IN IF Len(ids) > 1 THEN Raise(h1, TooManyRecordsError)
       ELSE IF Len(ids) = 0 THEN Return(h1, None)
       ELSE Return(h1, ids[1])

\* A faulty Lookup.exactly_one_id: None is handed on instead of raising
exactly_one_id_ReturnsNone(h, model, domain) == maybe_id(h, model, domain)

\* Lookup.exactly_one_id
exactly_one_id(h, model, domain) ==
    LET r == maybe_id(h, model, domain)
    IN IF r.exc # NoError THEN Propagate(r)
       ELSE IF r.val = None THEN Raise(r.h, NoRecordsError)
       ELSE Return(r.h, r.val)


\* Lookup._app_group_id and the module-level _app_group_id (the same body)
_app_group_id(h, category_name, group_name) ==
    IF TruthyName(group_name)
    THEN exactly_one_id(h, "res.groups",
             << <<"category_id.name", "=", category_name>>,
                <<"name", "=", group_name>> >>)
    ELSE Return(h, False)

(***************************************************************************)
(* Host models used by the settings functions                              *)
(***************************************************************************)
Companies == {1, 2}

SettingsModels == {"account.config.settings", "base.config.settings"}

\* model.fields_get: the fields of a model
HostFieldsGet(model) ==
    CASE model = "account.config.settings" ->
            {"company_id", "group_multi_currency", "default_sale_tax",
             "default_purchase_tax", "income_currency_exchange_account_id",
             "expense_currency_exchange_account_id"}
      [] model = "base.config.settings" -> {"module_multi_company", "font"}
      [] model = "wizard.multi.charts.accounts" ->
            {"bank_accounts_id", "currency_id", "chart_template_id", "company_id",
             "code_digits", "sale_tax", "purchase_tax"}
      [] model = "account.fiscalyear" ->
            {"state", "company_id", "name", "code", "date_start", "date_stop"}
      [] OTHER -> {}

\* The host's default of each field that has one
HostDefaults(model) ==
    CASE model = "account.config.settings" ->
            [company_id |-> 1, group_multi_currency |-> False, default_sale_tax |-> 1]
      [] model = "base.config.settings" -> [module_multi_company |-> False, font |-> 1]
      [] model = "wizard.multi.charts.accounts" ->
            [bank_accounts_id |-> << [acc_name |-> "Cash", account_type |-> "cash"],
                                     [acc_name |-> "Bank", account_type |-> "bank"] >>,
             currency_id |-> 1]
      [] model = "account.fiscalyear" -> [state |-> "draft", company_id |-> 1]
      [] OTHER -> EmptyDict

\* model.default_get(fields): the defaults of the fields asked for
HostDefaultGet(model, fields) ==
    [k \in (DOMAIN HostDefaults(model)) \cap fields |-> HostDefaults(model)[k]]

\* model.execute on a settings or wizard row.  Executing the chart wizard
\* installs the chart for the row's company, which is then configured.
HostExecute(h, model, ids) ==
    LET idset == {ids[i] : i \in 1..Len(ids)}
        done == IF model = "wizard.multi.charts.accounts"
                THEN {row.vals["company_id"] : row \in {r \in h.db[model] : r.id \in idset}}
                ELSE {}
    IN Log([h EXCEPT !.unconf = @ \ done], "execute", model, ids, EmptyDict)

(***************************************************************************)
(* set_settings and its wrappers                                           *)
(***************************************************************************)
\* A faulty set_settings: the defaults overwrite the requested changes
set_settings_DefaultsWin(h, settings_model_name, changes, company) ==
    LET domain == IF company # None THEN << <<"company_id", "=", company>> >> ELSE <<>>
        r == maybe_id(h, settings_model_name, domain)
    IN IF r.exc # NoError THEN Propagate(r)
       ELSE IF r.val = None
       THEN LET defaults == HostDefaultGet(settings_model_name,
                                           HostFieldsGet(settings_model_name))
                data2 == Update(changes, defaults)
                data3 == IF company # None
                         THEN Update(data2, [company_id |-> company])
                         ELSE data2
                c == HostCreate(r.h, settings_model_name, data3)
            IN Return(HostExecute(c.h, settings_model_name, <<c.id>>), None)
       ELSE LET w == HostWrite(r.h, settings_model_name, <<r.val>>, changes)
            IN Return(HostExecute(w, settings_model_name, <<r.val>>), None)

\* A faulty set_settings: an existing record is rewritten from the defaults
set_settings_WriteDefaults(h, settings_model_name, changes, company) ==
    LET domain == IF company # None THEN << <<"company_id", "=", company>> >> ELSE <<>>
        r == maybe_id(h, settings_model_name, domain)
        defaults == HostDefaultGet(settings_model_name, HostFieldsGet(settings_model_name))
        data2 == Update(defaults, changes)
    IN IF r.exc # NoError THEN Propagate(r)
       ELSE IF r.val = None
       THEN LET data3 == IF company # None
                         THEN Update(data2, [company_id |-> company])
                         ELSE data2
                c == HostCreate(r.h, settings_model_name, data3)
            IN Return(HostExecute(c.h, settings_model_name, <<c.id>>), None)
       ELSE LET w == HostWrite(r.h, settings_model_name, <<r.val>>, data2)
            IN Return(HostExecute(w, settings_model_name, <<r.val>>), None)

\* A faulty set_settings: of several records in scope the first is taken
set_settings_FirstMatch(h, settings_model_name, changes, company) ==
    LET domain == IF company # None THEN << <<"company_id", "=", company>> >> ELSE <<>>
        r == maybe_id_ReturnsFirst(h, settings_model_name, domain)
    IN IF r.val = None
       THEN LET defaults == HostDefaultGet(settings_model_name,
                                           HostFieldsGet(settings_model_name))
                data2 == Update(defaults, changes)
                data3 == IF company # None
                         THEN Update(data2, [company_id |-> company])
                         ELSE data2
                c == HostCreate(r.h, settings_model_name, data3)
            IN Return(HostExecute(c.h, settings_model_name, <<c.id>>), None)
       ELSE LET w == HostWrite(r.h, settings_model_name, <<r.val>>, changes)
            IN Return(HostExecute(w, settings_model_name, <<r.val>>), None)

\* A faulty set_settings: a new record keeps the default company
set_settings_DefaultCompany(h, settings_model_name, changes, company) ==
    LET domain == IF company # None THEN << <<"company_id", "=", company>> >> ELSE <<>>
        r == maybe_id(h, settings_model_name, domain)
    IN IF r.exc # NoError THEN Propagate(r)
       ELSE IF r.val = None
       THEN LET defaults == HostDefaultGet(settings_model_name,
                                           HostFieldsGet(settings_model_name))
                data2 == Update(defaults, changes)
                c == HostCreate(r.h, settings_model_name, data2)
            IN Return(HostExecute(c.h, settings_model_name, <<c.id>>), None)
       ELSE LET w == HostWrite(r.h, settings_model_name, <<r.val>>, changes)
            IN Return(HostExecute(w, settings_model_name, <<r.val>>), None)

\* A faulty set_settings: with no company only records of no company match
set_settings_GlobalOnly(h, settings_model_name, changes, company) ==
    LET domain == IF company # None THEN << <<"company_id", "=", company>> >>
                  ELSE << <<"company_id", "=", False>> >>
        r == maybe_id(h, settings_model_name, domain)
    IN IF r.exc # NoError THEN Propagate(r)
       ELSE IF r.val = None
       THEN LET defaults == HostDefaultGet(settings_model_name,
                                           HostFieldsGet(settings_model_name))
                data2 == Update(defaults, changes)
                data3 == IF company # None
                         THEN Update(data2, [company_id |-> company])
                         ELSE data2
                c == HostCreate(r.h, settings_model_name, data3)
            IN Return(HostExecute(c.h, settings_model_name, <<c.id>>), None)
       ELSE LET w == HostWrite(r.h, settings_model_name, <<r.val>>, changes)
            IN Return(HostExecute(w, settings_model_name, <<r.val>>), None)

\* set_settings
set_settings(h, settings_model_name, changes, company) ==
    LET domain == IF company # None THEN << <<"company_id", "=", company>> >> ELSE <<>>
        r == maybe_id(h, settings_model_name, domain)
    IN IF r.exc # NoError THEN Propagate(r)
       ELSE IF r.val = None
       THEN LET defaults == HostDefaultGet(settings_model_name,
                                           HostFieldsGet(settings_model_name))
                data2 == Update(defaults, changes)
                data3 == IF company # None
                         THEN Update(data2, [company_id |-> company])
                         ELSE data2
                c == HostCreate(r.h, settings_model_name, data3)
            IN Return(HostExecute(c.h, settings_model_name, <<c.id>>), None)
       ELSE LET w == HostWrite(r.h, settings_model_name, <<r.val>>, changes)
            IN Return(HostExecute(w, settings_model_name, <<r.val>>), None)

\* set_account_settings
set_account_settings(h, changes, company) ==
    set_settings(h, "account.config.settings", changes, company)

\* set_general_settings
set_general_settings(h, changes) ==
    set_settings(h, "base.config.settings", changes, None)

\* Lookup.field_id
field_id(h, model_name, field_name) ==
    exactly_one_id(h, "ir.model.fields",
        << <<"model", "=", model_name>>, <<"name", "=", field_name>> >>)

\* A faulty Config.set_default_taxes: the sales tax is applied before the
\* purchase tax is looked up
Config_set_default_taxes_OneByOne(h, company, sales_code, purchase_code) ==
    LET s == exactly_one_id(h, "account.tax",
                 << <<"company_id", "=", company>>, <<"description", "=", sales_code>> >>)
    IN IF s.exc # NoError THEN Propagate(s)
       ELSE LET a == set_account_settings(s.h, [default_sale_tax |-> s.val], company)
            IN IF a.exc # NoError THEN Propagate(a)
               ELSE LET p == exactly_one_id(a.h, "account.tax",
                                 << <<"company_id", "=", company>>,
                                    <<"description", "=", purchase_code>> >>)
                    IN IF p.exc # NoError THEN Propagate(p)
                       ELSE set_account_settings(p.h, [default_purchase_tax |-> p.val],
                                                 company)

\* Config.set_default_taxes (and the deprecated set_default_taxes, which
\* calls it)
Config_set_default_taxes(h, company, sales_code, purchase_code) ==
    LET s == exactly_one_id(h, "account.tax",
                 << <<"company_id", "=", company>>, <<"description", "=", sales_code>> >>)
    IN IF s.exc # NoError THEN Propagate(s)
       ELSE LET p == exactly_one_id(s.h, "account.tax",
                         << <<"company_id", "=", company>>,
                            <<"description", "=", purchase_code>> >>)
            IN IF p.exc # NoError THEN Propagate(p)
               ELSE set_account_settings(p.h,
                        [default_sale_tax |-> s.val, default_purchase_tax |-> p.val],
                        company)

\* enable_multi_currency
enable_multi_currency(h, company, gain_account_code, loss_account_code) ==
    LET g == exactly_one_id(h, "account.account",
                 << <<"company_id", "=", company>>, <<"code", "=", gain_account_code>> >>)
    IN IF g.exc # NoError THEN Propagate(g)
       ELSE LET l == exactly_one_id(g.h, "account.account",
                         << <<"company_id", "=", company>>,
                            <<"code", "=", loss_account_code>> >>)
            IN IF l.exc # NoError THEN Propagate(l)
               ELSE set_account_settings(l.h,
                        [group_multi_currency |-> True,
                         income_currency_exchange_account_id |-> g.val,
                         expense_currency_exchange_account_id |-> l.val],
                        company)

\* create_consolidation_account; the id of the new account is returned
create_consolidation_account(h, company, code, name, children) ==
    LET t == exactly_one_id(h, "account.account.type", << <<"name", "=", "Root/View">> >>)
        ADD_EXISTING_ID == 4
    IN IF t.exc # NoError THEN Propagate(t)
       ELSE LET data == [code |-> code, name |-> name, type |-> "consolidation",
                         user_type |-> t.val,
                         child_consol_ids |->
                             [i \in 1..Len(children) |->
                                 <<ADD_EXISTING_ID, children[i], False>>]]
                c == HostCreate(t.h, "account.account", data)
            IN Return(c.h, c.id)

\* makeref: '%s,%d' % (model_name, identifier)
makeref(model_name, identifier) == model_name \o "," \o FormatD(identifier)

\* A faulty set_default_customer_sale_pricelist: the old defaults are kept
set_default_customer_sale_pricelist_KeepsOld(h, company, pricelist) ==
    LET f == field_id(h, "res.partner", "property_product_pricelist")
    IN IF f.exc # NoError THEN Propagate(f)
       ELSE LET domain == << <<"company_id", "=", company>>, <<"fields_id", "=", f.val>>,
                             <<"res_id", "=", False>> >>
                existing_ids == HostSearch(f.h, "ir.property", domain)
                h1 == Log(f.h, "search", "ir.property", existing_ids, domain)
                c == HostCreate(h1, "ir.property",
                         [company_id |-> company, fields_id |-> f.val, res_id |-> False,
                          type |-> "many2one",
                          value_reference |-> makeref("product.pricelist", pricelist)])
            IN Return(c.h, None)

\* set_default_customer_sale_pricelist
set_default_customer_sale_pricelist(h, company, pricelist) ==
    LET f == field_id(h, "res.partner", "property_product_pricelist")
    IN IF f.exc # NoError THEN Propagate(f)
       ELSE LET domain == << <<"company_id", "=", company>>, <<"fields_id", "=", f.val>>,
                             <<"res_id", "=", False>> >>
                existing_ids == HostSearch(f.h, "ir.property", domain)
                h1 == Log(f.h, "search", "ir.property", existing_ids, domain)
                h2 == IF existing_ids # <<>>
                      THEN HostUnlink(h1, "ir.property", existing_ids)
                      ELSE h1
                c == HostCreate(h2, "ir.property",
                         [company_id |-> company, fields_id |-> f.val, res_id |-> False,
                          type |-> "many2one",
                          value_reference |-> makeref("product.pricelist", pricelist)])
            IN Return(c.h, None)

(***************************************************************************)
(* account_setup.py                                                        *)
(***************************************************************************)
\* date.strftime(fmt) for the formats used: %Y is the year in decimal
StrftimeY(year) == FormatD(year)

\* unconfigured_company_ids: account.installer.get_unconfigured_cmp
unconfigured_company_ids(h) == h.unconf

\* wizard.onchange_chart_template_id: the values the template dictates
HostOnchangeChartTemplate(chart_template_id) ==
    [value |-> [code_digits |-> 6, sale_tax |-> 1, purchase_tax |-> 2]]

\* setup_chart_of_accounts
setup_chart_of_accounts(h, company_id, chart_template_id, code_digits) ==
    LET chart_wizard == "wizard.multi.charts.accounts"
        defaults == HostDefaultGet(chart_wizard, {"bank_accounts_id", "currency_id"})
        bank_accounts_spec == defaults["bank_accounts_id"]
        bank_accounts_id == [i \in 1..Len(bank_accounts_spec) |->
                                <<0, False, bank_accounts_spec[i]>>]
        data1 == Update(Without(defaults, "bank_accounts_id"),
                        [chart_template_id |-> chart_template_id,
                         company_id |-> company_id,
                         bank_accounts_id |-> bank_accounts_id])
        onchange == HostOnchangeChartTemplate(data1["chart_template_id"])
        data2 == Update(data1, onchange["value"])
        data3 == IF Truthy(code_digits)
                 THEN Update(data2, [code_digits |-> code_digits])
                 ELSE data2
        c == HostCreate(h, chart_wizard, data3)
    IN Return(HostExecute(c.h, chart_wizard, <<c.id>>), None)

\* A faulty create_fiscal_year: the name and the code are exchanged
create_fiscal_year_NameIsCode(h, company_id, name, code, start_date, end_date) ==
    LET fy_model == "account.fiscalyear"
        fy_data == Update(HostDefaultGet(fy_model, {"state", "company_id"}),
                          [company_id |-> company_id, name |-> code, code |-> name,
                           date_start |-> start_date, date_stop |-> end_date])
        c == HostCreate(h, fy_model, fy_data)
    IN Return(Log(c.h, "create_period", fy_model, <<c.id>>, EmptyDict), None)

\* create_fiscal_year
create_fiscal_year(h, company_id, name, code, start_date, end_date) ==
    LET fy_model == "account.fiscalyear"
        fy_data == Update(HostDefaultGet(fy_model, {"state", "company_id"}),
                          [company_id |-> company_id, name |-> name, code |-> code,
                           date_start |-> start_date, date_stop |-> end_date])
        c == HostCreate(h, fy_model, fy_data)
    IN Return(Log(c.h, "create_period", fy_model, <<c.id>>, EmptyDict), None)

\* A faulty setup_company_accounts: the unconfigured check is left out
setup_company_accounts_Unchecked(h, company, chart_template, code_digits, today) ==
    LET r1 == setup_chart_of_accounts(h, company, chart_template, code_digits)
        fy_name == StrftimeY(today)
    IN create_fiscal_year(r1.h, company, fy_name, "FY" \o fy_name,
                          StrftimeY(today) \o "-01-01", StrftimeY(today) \o "-12-31")

\* setup_company_accounts; today is the year of date.today()
setup_company_accounts(h, company, chart_template, code_digits, today) ==
    LET unconfigured_companies == unconfigured_company_ids(h)
        h0 == Log(h, "get_unconfigured_cmp", "account.installer", <<>>, EmptyDict)
    IN IF company \in unconfigured_companies
       THEN LET r1 == setup_chart_of_accounts(h0, company, chart_template, code_digits)
                fy_name == StrftimeY(today)
                fy_code == "FY" \o fy_name
                account_start == StrftimeY(today) \o "-01-01"
                account_end == StrftimeY(today) \o "-12-31"
            IN create_fiscal_year(r1.h, company, fy_name, fy_code,
                                  account_start, account_end)
       ELSE Return(h0, None)

(***************************************************************************)
(* Access rights                                                           *)
(***************************************************************************)
\* group_field = lambda gid: 'in_group_%d' % (gid,)
group_field(gid) == "in_group_" \o FormatD(gid)

\* A faulty comprehension: a triple whose lookup fails is skipped
RECURSIVE access_field_changes_SkipsFailed(_, _, _, _)
access_field_changes_SkipsFailed(h, changes, i, acc) ==
    IF i > Len(changes) THEN [h |-> h, exc |-> NoError, val |-> acc]
    ELSE LET r == _app_group_id(h, changes[i][1], changes[i][2])
         IN access_field_changes_SkipsFailed(r.h, changes, i + 1,
                IF r.exc # NoError THEN acc
                ELSE Update(acc, (group_field(r.val) :> changes[i][3])))

\* The dict comprehension of Config.set_user_access_rights over changes[i..]:
\* each key is looked up in list order and a later triple replaces an
\* earlier one with the same key; the first condition raised ends it.
\* The result carries the dictionary in val.
RECURSIVE access_field_changes(_, _, _, _)
access_field_changes(h, changes, i, acc) ==
    IF i > Len(changes) THEN [h |-> h, exc |-> NoError, val |-> acc]
    ELSE LET r == _app_group_id(h, changes[i][1], changes[i][2])
         IN IF r.exc # NoError THEN Propagate(r)
            ELSE access_field_changes(r.h, changes, i + 1,
                     Update(acc, (group_field(r.val) :> changes[i][3])))

\* A faulty Config.set_user_access_rights: the flags are written inverted
Config_set_user_access_rights_Inverted(h, user, changes) ==
    LET r == access_field_changes(h, changes, 1, EmptyDict)
    IN IF r.exc # NoError THEN Propagate(r)
       ELSE Return(HostWrite(r.h, "res.users", <<user>>,
                             [k \in DOMAIN r.val |-> 1 - r.val[k]]), None)

\* Config.set_user_access_rights (and the deprecated module-level function
\* of the same name, which calls it)
Config_set_user_access_rights(h, user, changes) ==
    LET r == access_field_changes(h, changes, 1, EmptyDict)
    IN IF r.exc # NoError THEN Propagate(r)
       ELSE Return(HostWrite(r.h, "res.users", <<user>>, r.val), None)

\* res.users.fields_get: the fields of a user and their labels
HostUserFields ==
    [f \in {"login", "in_group_4", "in_group_5", "sel_groups_1_2_3", "sel_groups_8_9"} |->
        [string |-> CASE f = "login" -> "Login"
                      [] f = "in_group_4" -> "Addresses in Sales Orders"
                      [] f = "in_group_5" -> "Technical Settings"
                      [] f = "sel_groups_1_2_3" -> "Sales"
                      [] f = "sel_groups_8_9" -> "Administration"]]

\* is_user_level_field = lambda f: f.startswith('sel_groups_')
is_user_level_field(f) == StartsWith(f, "sel_groups_")

\* The dict comprehension of select_user_levels over the categories in the
\* order changes.items() gives them: in Python 2 the value (the group
\* lookup) is evaluated before the key (the category's field), and a
\* category without a level field is a KeyError.
RECURSIVE level_field_changes(_, _, _, _, _)
level_field_changes(h, category_field_map, changes, order, acc) ==
    IF order = <<>> THEN [h |-> h, exc |-> NoError, val |-> acc]
    ELSE LET category == Head(order)
             r == _app_group_id(h, category, changes[category])
         IN IF r.exc # NoError THEN Propagate(r)
            ELSE IF category \notin DOMAIN category_field_map THEN Raise(r.h, KeyError)
            ELSE level_field_changes(r.h, category_field_map, changes, Tail(order),
                     Update(acc, (category_field_map[category] :> r.val)))

\* select_user_levels; order is the order of changes.items()
select_user_levels(h, user, changes, order) ==
    LET user_fields == HostUserFields
        h1 == Log(h, "fields_get", "res.users", <<>>, EmptyDict)
        level_fields == {f \in DOMAIN user_fields : is_user_level_field(f)}
        labels == {user_fields[f]["string"] : f \in level_fields}
        category_field_map ==
            [c \in labels |-> CHOOSE f \in level_fields : user_fields[f]["string"] = c]
        r == level_field_changes(h1, category_field_map, changes, order, EmptyDict)
    IN IF r.exc # NoError THEN Propagate(r)
       ELSE Return(HostWrite(r.h, "res.users", <<user>>, r.val), None)

\* crm_perm_map of select_sale_user_level
crm_perm_map ==
    (PyFalse :> PyFalse) @@ ("See all Leads" :> "User: All Leads")
        @@ ("See Own Leads" :> "User: Own Leads Only") @@ ("Manager" :> "Manager")

\* A faulty select_sale_user_level: every wrong-number condition is caught
select_sale_user_level_CatchesAll(h, user, level) ==
    LET r1 == select_user_levels(h, user, ("Sales" :> level), <<"Sales">>)
    IN IF IsInstance(r1.exc, WrongNumberOfRecordsError)
       THEN IF level \notin DOMAIN crm_perm_map THEN Raise(r1.h, KeyError)
            ELSE select_user_levels(r1.h, user, ("Sales" :> crm_perm_map[level]),
                                    <<"Sales">>)
       ELSE r1

\* select_sale_user_level
select_sale_user_level(h, user, level) ==
    LET r1 == select_user_levels(h, user, ("Sales" :> level), <<"Sales">>)
    IN IF IsInstance(r1.exc, NoRecordsError)
       THEN IF level \notin DOMAIN crm_perm_map THEN Raise(r1.h, KeyError)
            ELSE select_user_levels(r1.h, user, ("Sales" :> crm_perm_map[level]),
                                    <<"Sales">>)
       ELSE r1

(***************************************************************************)
(* The host database at the start                                          *)
(***************************************************************************)
Models ==
    {"account.tax", "account.account", "account.account.type", "res.groups",
     "res.users", "ir.model.fields", "ir.property", "account.config.settings",
     "base.config.settings", "wizard.multi.charts.accounts", "account.fiscalyear"}

Row(id, vals) == [id |-> id, vals |-> vals]

GroupRow(id, category, name) ==
    Row(id, ("category_id.name" :> category) @@ ("name" :> name))

\* The application groups common to every installation; the group
\* 'Multi Currencies' exists twice
CommonGroups ==
    {GroupRow(4, "Technical Settings", "Addresses in Sales Orders"),
     GroupRow(5, "Usability", "Technical Settings"),
     GroupRow(6, "Technical Settings", "Multi Currencies"),
     GroupRow(7, "Technical Settings", "Multi Currencies")}

\* The Sales groups as the sale module names them; 'Manager' exists twice
SaleGroups ==
    {GroupRow(1, "Sales", "See Own Leads"),
     GroupRow(2, "Sales", "See all Leads"),
     GroupRow(3, "Sales", "Manager"),
     GroupRow(9, "Sales", "Manager")}

\* The Sales groups as renamed when crm is installed; 'User: All Leads'
\* exists twice and there is no 'Manager'
CrmGroups ==
    {GroupRow(1, "Sales", "User: Own Leads Only"),
     GroupRow(2, "Sales", "User: All Leads"),
     GroupRow(8, "Sales", "User: All Leads")}

TaxRows ==
    {Row(1, [company_id |-> 1, description |-> "ST1"]),
     Row(2, [company_id |-> 1, description |-> "PT1"]),
     Row(3, [company_id |-> 1, description |-> "PT1"]),
     Row(4, [company_id |-> 2, description |-> "ST1"])}

\* The accounts of company 1; the code 7200 exists twice
AccountRows ==
    {Row(1, [company_id |-> 1, code |-> "7000"]),
     Row(2, [company_id |-> 1, code |-> "7100"]),
     Row(3, [company_id |-> 1, code |-> "7200"]),
     Row(4, [company_id |-> 1, code |-> "7200"])}

AccountTypeRows == {Row(1, [name |-> "Root/View"]), Row(2, [name |-> "Income"])}

FieldRows ==
    {Row(11, [model |-> "res.partner", name |-> "property_product_pricelist"]),
     Row(12, [model |-> "res.partner", name |-> "name"])}

\* The properties the database holds: company 1 has two default customer
\* pricelists and company 2 one, next to company 2's default of another field
PropertyRows ==
    {Row(1, [company_id |-> 1, fields_id |-> 11, res_id |-> False,
             type |-> "many2one", value_reference |-> "product.pricelist,1"]),
     Row(2, [company_id |-> 1, fields_id |-> 11, res_id |-> False,
             type |-> "many2one", value_reference |-> "product.pricelist,2"]),
     Row(3, [company_id |-> 2, fields_id |-> 11, res_id |-> False,
             type |-> "many2one", value_reference |-> "product.pricelist,1"]),
     Row(4, [company_id |-> 2, fields_id |-> 12, res_id |-> False,
             type |-> "many2one", value_reference |-> "product.pricelist,1"])}

\* The users of the database, and those a script configures
UserIds == {1, 2}
Users == {2}

UserRows ==
    {Row(u, ("in_group_4" :> False) @@ ("sel_groups_1_2_3" :> False)) : u \in UserIds}

InitDb(groups) ==
    [m \in Models |->
        CASE m = "account.tax" -> TaxRows
          [] m = "account.account" -> AccountRows
          [] m = "account.account.type" -> AccountTypeRows
          [] m = "ir.model.fields" -> FieldRows
          [] m = "res.groups" -> groups
          [] m = "res.users" -> UserRows
          [] m = "ir.property" -> PropertyRows
          [] OTHER -> {}]

InitSeq ==
    [m \in Models |->
        CASE m = "account.tax" -> 5
          [] m = "account.account" -> 5
          [] m = "account.account.type" -> 3
          [] m = "ir.model.fields" -> 13
          [] m = "res.groups" -> 10
          [] m = "res.users" -> 3
          [] m = "ir.property" -> 5
          [] OTHER -> 1]

NoCall == [op |-> "", args |-> <<>>]

Init ==
    /\ \E sales \in {SaleGroups, CrmGroups} : db = InitDb(CommonGroups \cup sales)
    /\ seq = InitSeq
    /\ unconf = {1}
    /\ last = NoCall
    /\ calls = <<>>
    /\ result = [exc |-> NoError, val |-> None]
    /\ ncalls = 0

(***************************************************************************)
(* The library calls a configuration script makes                          *)
(***************************************************************************)
\* The host as a call finds it
Here == Host(db, seq, unconf, <<>>)

\* The call op(args) is made and ends as r
Does(op, args, r) ==
    /\ ncalls < MaxCalls
    /\ ncalls' = ncalls + 1
    /\ last' = [op |-> op, args |-> args]
    /\ db' = r.h.db
    /\ seq' = r.h.seq
    /\ unconf' = r.h.unconf
    /\ calls' = r.h.calls
    /\ result' = [exc |-> r.exc, val |-> r.val]

\* The direct lookups: taxes by code, taxes by company and code, groups by
\* category and name
LookupQueries ==
    {<<"account.tax", << <<"description", "=", c>> >> >> : c \in {"ST1", "XX"}}
        \cup {<<"account.tax", << <<"company_id", "=", 1>>, <<"description", "=", "ST1">> >> >>}
        \cup {<<"res.groups", << <<"category_id.name", "=", "Technical Settings">>,
                                 <<"name", "=", n>> >> >> :
                 n \in {"Addresses in Sales Orders", "Multi Currencies"}}

ExactlyOneId ==
    \E q \in LookupQueries :
        Does("exactly_one_id", q, exactly_one_id(Here, q[1], q[2]))

MaybeId ==
    \E q \in LookupQueries :
        Does("maybe_id", q, maybe_id(Here, q[1], q[2]))

SettingsChanges(model) ==
    IF model = "account.config.settings"
    THEN {[group_multi_currency |-> True],
          [default_sale_tax |-> 4, default_purchase_tax |-> 2],
          [company_id |-> 2, group_multi_currency |-> True]}
    ELSE {[module_multi_company |-> True], [font |-> 2]}

\* base.config.settings has no company_id: it is only used unscoped
SettingsScopes(model) ==
    IF model = "account.config.settings" THEN Companies \cup {None} ELSE {None}

SetSettings ==
    \E model \in SettingsModels :
        \E changes \in SettingsChanges(model), company \in SettingsScopes(model) :
            Does("set_settings", <<model, changes, company>>,
                 set_settings(Here, model, changes, company))

SetAccountSettings ==
    \E changes \in SettingsChanges("account.config.settings"), company \in Companies :
        Does("set_account_settings", <<"account.config.settings", changes, company>>,
             set_account_settings(Here, changes, company))

SetGeneralSettings ==
    \E changes \in SettingsChanges("base.config.settings") :
        Does("set_general_settings", <<"base.config.settings", changes, None>>,
             set_general_settings(Here, changes))

\* Pairs of a sales and a purchase tax code
TaxCodePairs == {<<"ST1", "ST1">>, <<"ST1", "PT1">>, <<"XX", "PT1">>}

SetDefaultTaxes ==
    \E company \in Companies, codes \in TaxCodePairs :
        Does("set_default_taxes", <<company, codes[1], codes[2]>>,
             Config_set_default_taxes(Here, company, codes[1], codes[2]))

\* Pairs of a gain and a loss account code
AccountCodePairs == {<<"7000", "7100">>, <<"7100", "7200">>, <<"9999", "7200">>}

EnableMultiCurrency ==
    \E company \in Companies, codes \in AccountCodePairs :
        Does("enable_multi_currency", <<company, codes[1], codes[2]>>,
             enable_multi_currency(Here, company, codes[1], codes[2]))

CreateConsolidationAccount ==
    \E company \in Companies :
        Does("create_consolidation_account", <<company, "C000", "Group", <<1, 2>> >>,
             create_consolidation_account(Here, company, "C000", "Group", <<1, 2>>))

\* The ids of the pricelists
Pricelists == {3, 12}

SetDefaultCustomerSalePricelist ==
    \E company \in Companies, pricelist \in Pricelists :
        Does("set_default_customer_sale_pricelist", <<company, pricelist>>,
             set_default_customer_sale_pricelist(Here, company, pricelist))

\* The years date.today() may fall in
Years == {1999, 2015}

SetupCompanyAccounts ==
    \E company \in Companies, code_digits \in {None, 6}, today \in Years :
        Does("setup_company_accounts", <<company, 1, code_digits, today>>,
             setup_company_accounts(Here, company, 1, code_digits, today))

\* Lists of (category, group, ticked) triples
AccessChanges ==
    LET addr(b) == <<"Technical Settings", "Addresses in Sales Orders", b>>
        tech(b) == <<"Usability", "Technical Settings", b>>
        missing == <<"Usability", "No Such Group", True>>
        twice == <<"Technical Settings", "Multi Currencies", True>>
        nogroup == <<"Usability", PyFalse, True>>
    IN {<<>>, <<addr(True)>>,
        <<addr(True), addr(False)>>, <<addr(False), tech(True), addr(True)>>,
        <<tech(True), missing>>, <<missing, twice>>, <<twice, addr(True)>>,
        <<nogroup>>}

SetUserAccessRights ==
    \E user \in Users, changes \in AccessChanges :
        Does("set_user_access_rights", <<user, changes>>,
             Config_set_user_access_rights(Here, user, changes))

SaleLevels == {PyFalse, "See all Leads", "See Own Leads", "Manager"}

SelectSaleUserLevel ==
    \E user \in Users, level \in SaleLevels :
        Does("select_sale_user_level", <<user, level>>,
             select_sale_user_level(Here, user, level))

\* Category -> group dictionaries, each with the orders its items may come in
LevelChanges ==
    {[changes |-> ("Sales" :> "See all Leads"), order |-> <<"Sales">>],
     [changes |-> ("Sales" :> "Manager") @@ ("Administration" :> PyFalse),
      order |-> <<"Sales", "Administration">>],
     [changes |-> ("Sales" :> "Manager") @@ ("Administration" :> PyFalse),
      order |-> <<"Administration", "Sales">>],
     [changes |-> ("Purchases" :> PyFalse), order |-> <<"Purchases">>]}

SelectUserLevels ==
    \E user \in Users, c \in LevelChanges :
        Does("select_user_levels", <<user, c.changes>>,
             select_user_levels(Here, user, c.changes, c.order))

Next ==
    \/ ExactlyOneId
    \/ MaybeId
    \/ SetSettings
    \/ SetAccountSettings
    \/ SetGeneralSettings
    \/ SetDefaultTaxes
    \/ EnableMultiCurrency
    \/ CreateConsolidationAccount
    \/ SetDefaultCustomerSalePricelist
    \/ SetupCompanyAccounts
    \/ SetUserAccessRights
    \/ SelectSaleUserLevel
    \/ SelectUserLevels

Spec == Init /\ [][Next]_vars

(***************************************************************************)
(* A script that only applies settings.  The record of host calls is kept  *)
(* over the whole script, and each library call is entered in it with its  *)
(* arguments before the host calls it makes.                               *)
(***************************************************************************)
\* The host as a call of a script finds it, with the record so far
Sofar == Host(db, seq, unconf, calls)

\* The library call op(args) is entered in the record
Begin(h, op, args) == Log(h, "call", op, <<>>, args)

SettingsArgs(model, changes, company) ==
    [model |-> model, changes |-> changes, company |-> company]

ScriptSetSettings ==
    \E model \in SettingsModels :
        \E changes \in SettingsChanges(model), company \in SettingsScopes(model) :
            Does("set_settings", <<model, changes, company>>,
                 set_settings(Begin(Sofar, "set_settings",
                                    SettingsArgs(model, changes, company)),
                              model, changes, company))

ScriptSetAccountSettings ==
    \E changes \in SettingsChanges("account.config.settings"), company \in Companies :
        Does("set_account_settings", <<"account.config.settings", changes, company>>,
             set_account_settings(
                 Begin(Sofar, "set_account_settings",
                       SettingsArgs("account.config.settings", changes, company)),
                 changes, company))

ScriptSetGeneralSettings ==
    \E changes \in SettingsChanges("base.config.settings") :
        Does("set_general_settings", <<"base.config.settings", changes, None>>,
             set_general_settings(
                 Begin(Sofar, "set_general_settings",
                       SettingsArgs("base.config.settings", changes, None)),
                 changes))

SettingsNext ==
    \/ ScriptSetSettings
    \/ ScriptSetAccountSettings
    \/ ScriptSetGeneralSettings

SettingsSpec == Init /\ [][SettingsNext]_vars

(***************************************************************************)
(* A script that only sets default customer sale pricelists, with the      *)
(* record kept over the whole script in the same way.                      *)
(***************************************************************************)
ScriptSetDefaultCustomerSalePricelist ==
    \E company \in Companies, pricelist \in Pricelists :
        Does("set_default_customer_sale_pricelist", <<company, pricelist>>,
             set_default_customer_sale_pricelist(
                 Begin(Sofar, "set_default_customer_sale_pricelist",
                       [company |-> company, pricelist |-> pricelist]),
                 company, pricelist))

PricelistNext == ScriptSetDefaultCustomerSalePricelist

PricelistSpec == Init /\ [][PricelistNext]_vars

(***************************************************************************)
(* Properties                                                              *)
(***************************************************************************)
\* A library call was made in this step
Called(ops) == ncalls' = ncalls + 1 /\ last'.op \in ops

\* The positions of the call record holding a host call op
At(cs, op) == {i \in 1..Len(cs) : cs[i].op = op}

\* The rows of the direct lookup made last that meet its filter
LookedUp == {r \in db[last.args[1]] : Matches(r, last.args[2])}

\* C1: when no row meets the filter, exactly_one_id raises NoRecordsError and
\* returns no identifier.
C1_NoRecords ==
    (last.op = "exactly_one_id" /\ LookedUp = {})
        => result.exc = NoRecordsError /\ result.val = None

C1_Witness ==
    /\ last.op = "exactly_one_id"
    /\ last.args[1] = "account.tax"
    /\ LookedUp = {}
    /\ result.exc = NoRecordsError

\* C2: when exactly one row meets the filter, exactly_one_id and maybe_id
\* return the id of that row and raise nothing.
C2_ExactlyOne ==
    (last.op \in {"exactly_one_id", "maybe_id"} /\ Cardinality(LookedUp) = 1)
        => /\ result.exc = NoError
           /\ \A r \in LookedUp : result.val = r.id

C2_Witness ==
    /\ last.op = "exactly_one_id"
    /\ last.args[1] = "res.groups"
    /\ Cardinality(LookedUp) = 1
    /\ result = [exc |-> NoError, val |-> 4]

\* C3: when more than one row meets the filter, exactly_one_id and maybe_id
\* raise TooManyRecordsError; it is another condition than NoRecordsError,
\* neither is a kind of the other, and both are kinds of
\* WrongNumberOfRecordsError.
C3_TooMany ==
    (last.op \in {"exactly_one_id", "maybe_id"} /\ Cardinality(LookedUp) > 1)
        => /\ result.exc = TooManyRecordsError
           /\ result.val = None
           /\ result.exc # NoRecordsError
           /\ IsInstance(result.exc, WrongNumberOfRecordsError)
           /\ IsInstance(NoRecordsError, WrongNumberOfRecordsError)
           /\ ~IsInstance(result.exc, NoRecordsError)
           /\ ~IsInstance(NoRecordsError, result.exc)

C3_Witness ==
    /\ last.op = "maybe_id"
    /\ Cardinality(LookedUp) = 2
    /\ result.exc = TooManyRecordsError

SettingsOps == {"set_settings", "set_account_settings", "set_general_settings"}

\* The settings rows in the scope of a call: those of the company when one
\* is given, every row of the model when none is
InScope(rows, company) ==
    IF company # None
    THEN {r \in rows : "company_id" \in DOMAIN r.vals /\ r.vals["company_id"] = company}
    ELSE rows

\* The value a new settings row is to have in field k
NewSettingsValue(model, changes, company, k) ==
    IF k = "company_id" /\ company # None THEN company
    ELSE IF k \in DOMAIN changes THEN changes[k]
    ELSE HostDefaults(model)[k]

\* The other models keep their rows, and no company changes its status
OnlyTouches(model) ==
    /\ \A m \in Models \ {model} : db'[m] = db[m] /\ seq'[m] = seq[m]
    /\ unconf' = unconf

\* C4 for one call of set_settings(model, changes, company)
C4_Step(model, changes, company) ==
    InScope(db[model], company) = {} =>
        /\ result'.exc = NoError
        /\ \E new \in db'[model] :
            /\ db'[model] = db[model] \cup {new}
            /\ new.id \notin {r.id : r \in db[model]}
            /\ DOMAIN new.vals =
                   (DOMAIN HostDefaults(model)) \cup (DOMAIN changes)
                       \cup (IF company # None THEN {"company_id"} ELSE {})
            /\ \A k \in DOMAIN new.vals :
                   new.vals[k] = NewSettingsValue(model, changes, company, k)
            /\ At(calls', "create") = {2}
            /\ calls'[2].model = model /\ calls'[2].ids = <<new.id>>
            /\ At(calls', "write") = {}
            /\ At(calls', "execute") = {3}
            /\ calls'[3].model = model /\ calls'[3].ids = <<new.id>>
            /\ Len(calls') = 3
        /\ OnlyTouches(model)

\* C4: when no settings row is in the scope, set_settings creates exactly one
\* row, holding the defaults overlaid by the changes, with company_id the
\* given company's whatever the changes say; it writes to no row, and then
\* executes the new row once.
C4_CreatesFromDefaults ==
    [][Called(SettingsOps) =>
          C4_Step(last'.args[1], last'.args[2], last'.args[3])]_vars

\* A row was created for company 1 although the changes name company 2, with a
\* changed field that has another default
C4_Witness ==
    /\ last.op = "set_settings"
    /\ last.args = <<"account.config.settings",
                     [company_id |-> 2, group_multi_currency |-> True], 1>>
    /\ At(calls, "create") = {2}
    /\ \E r \in db["account.config.settings"] :
          /\ <<r.id>> = calls[2].ids
          /\ r.vals = [company_id |-> 1, group_multi_currency |-> True,
                       default_sale_tax |-> 1]

\* C5 for one call of set_settings(model, changes, company)
C5_Step(model, changes, company) ==
    \A old \in InScope(db[model], company) :
        InScope(db[model], company) = {old} =>
            /\ result'.exc = NoError
            /\ \E new \in db'[model] :
                /\ db'[model] = (db[model] \ {old}) \cup {new}
                /\ new.id = old.id
                /\ DOMAIN new.vals = (DOMAIN old.vals) \cup (DOMAIN changes)
                /\ \A k \in DOMAIN new.vals :
                       new.vals[k] = IF k \in DOMAIN changes THEN changes[k]
                                     ELSE old.vals[k]
            /\ seq' = seq
            /\ At(calls', "create") = {}
            /\ At(calls', "write") = {2}
            /\ calls'[2].model = model /\ calls'[2].ids = <<old.id>>
            /\ DOMAIN calls'[2].arg = DOMAIN changes
            /\ At(calls', "execute") = {3}
            /\ calls'[3].model = model /\ calls'[3].ids = <<old.id>>
            /\ Len(calls') = 3
            /\ OnlyTouches(model)

\* C5: when exactly one settings row is in the scope, set_settings overwrites
\* the fields named in the changes on that row and nothing else: every other
\* field keeps its value, no default is applied again and no row is created;
\* it then executes that row once.
C5_UpdatesOnlyRequested ==
    [][Called(SettingsOps) =>
          C5_Step(last'.args[1], last'.args[2], last'.args[3])]_vars

\* An existing row was updated and keeps a value that is not the default
C5_Witness ==
    /\ last.op = "set_settings"
    /\ last.args[2] = [default_sale_tax |-> 4, default_purchase_tax |-> 2]
    /\ At(calls, "write") = {2}
    /\ \E r \in db["account.config.settings"] :
          /\ <<r.id>> = calls[2].ids
          /\ r.vals["group_multi_currency"] = True
          /\ r.vals["group_multi_currency"] #
                 HostDefaults("account.config.settings")["group_multi_currency"]
          /\ r.vals["default_sale_tax"] = 4

\* The year as date.strftime('%Y') is to print it
YearText(y) == CASE y = 1999 -> "1999" [] y = 2015 -> "2015"

\* The fiscal years created by the call made last
FiscalYearsCreated ==
    {r \in db["account.fiscalyear"] :
        \E i \in At(calls, "create") :
            calls[i].model = "account.fiscalyear" /\ calls[i].ids = <<r.id>>}

\* C6 as stated: the fiscal year setup_company_accounts creates runs from
\* Jan 1 to Dec 31 of the current year and is named "FY<year>".
C6_NamedFYYear ==
    last.op = "setup_company_accounts" =>
        \A r \in FiscalYearsCreated :
            /\ r.vals["date_start"] = YearText(last.args[4]) \o "-01-01"
            /\ r.vals["date_stop"] = YearText(last.args[4]) \o "-12-31"
            /\ r.vals["name"] = "FY" \o YearText(last.args[4])

\* C6 as amended: the fiscal year setup_company_accounts creates runs from
\* Jan 1 to Dec 31 of the current year; its name is "<year>" and its code is
\* "FY<year>".
C6_CodeFYYear ==
    last.op = "setup_company_accounts" =>
        \A r \in FiscalYearsCreated :
            /\ r.vals["date_start"] = YearText(last.args[4]) \o "-01-01"
            /\ r.vals["date_stop"] = YearText(last.args[4]) \o "-12-31"
            /\ r.vals["name"] = YearText(last.args[4])
            /\ r.vals["code"] = "FY" \o YearText(last.args[4])

C6_Witness ==
    /\ last.op = "setup_company_accounts"
    /\ last.args[4] = 2015
    /\ \E r \in FiscalYearsCreated :
          /\ r.vals["name"] = "2015"
          /\ r.vals["code"] = "FY2015"
          /\ r.vals["date_start"] = "2015-01-01"
          /\ r.vals["date_stop"] = "2015-12-31"

\* C7 for one call of setup_company_accounts(company, chart_template, ...)
C7_Step(company, chart_template) ==
    IF company \in unconf
    THEN /\ result'.exc = NoError
         /\ Len(calls') = 5
         /\ calls'[1].op = "get_unconfigured_cmp"
         /\ calls'[2].op = "create"
         /\ calls'[2].model = "wizard.multi.charts.accounts"
         /\ calls'[2].arg["company_id"] = company
         /\ calls'[2].arg["chart_template_id"] = chart_template
         /\ calls'[3].op = "execute"
         /\ calls'[3].model = "wizard.multi.charts.accounts"
         /\ calls'[3].ids = calls'[2].ids
         /\ calls'[4].op = "create"
         /\ calls'[4].model = "account.fiscalyear"
         /\ calls'[4].arg["company_id"] = company
         /\ calls'[5].op = "create_period"
         /\ calls'[5].model = "account.fiscalyear"
         /\ calls'[5].ids = calls'[4].ids
         /\ Cardinality(db'["wizard.multi.charts.accounts"]) =
                Cardinality(db["wizard.multi.charts.accounts"]) + 1
         /\ Cardinality(db'["account.fiscalyear"]) =
                Cardinality(db["account.fiscalyear"]) + 1
    ELSE /\ result'.exc = NoError
         /\ \A i \in 1..Len(calls') : calls'[i].op = "get_unconfigured_cmp"
         /\ db' = db
         /\ seq' = seq
         /\ unconf' = unconf

\* C7: setup_company_accounts acts only for a company the host reports as
\* unconfigured: then the chart wizard row is created and executed, after
\* that the fiscal year of the company is created, after that its periods;
\* for any other company nothing is created and nothing is executed.
C7_OnlyUnconfigured ==
    [][Called({"setup_company_accounts"}) =>
          C7_Step(last'.args[1], last'.args[2])]_vars

\* The accounts of company 1 were set up; the host now has it configured
C7_Witness ==
    /\ last.op = "setup_company_accounts"
    /\ last.args[1] = 1
    /\ Len(calls) = 5
    /\ calls[3].op = "execute"
    /\ calls[5].op = "create_period"
    /\ 1 \notin unconf

\* The membership flag of a group, as the user form names it
FlagField(gid) ==
    CASE gid = 0 -> "in_group_0" [] gid = 4 -> "in_group_4"
      [] gid = 5 -> "in_group_5" [] gid = 6 -> "in_group_6" [] gid = 7 -> "in_group_7"

\* The id of the group of a triple: that of the one row of the category with
\* the name; 0 (False) when the triple names no group
TripleGroup(t) ==
    IF TruthyName(t[2])
    THEN (CHOOSE r \in db["res.groups"] :
              r.vals["category_id.name"] = t[1] /\ r.vals["name"] = t[2]).id
    ELSE 0

UserRow(u) == CHOOSE r \in db["res.users"] : r.id = u

\* C8 as stated: set_user_access_rights resolves each pair and sets the
\* user's flag in_group_<group id> to the boolean of the triple, for every
\* triple of the list, using one write.
C8_EveryTriple ==
    (last.op = "set_user_access_rights" /\ result.exc = NoError) =>
        LET user == last.args[1]
            changes == last.args[2]
        IN /\ Cardinality(At(calls, "write")) = 1
           /\ \A i \in 1..Len(changes) :
                 TruthyName(changes[i][2]) =>
                     /\ FlagField(TripleGroup(changes[i])) \in DOMAIN UserRow(user).vals
                     /\ UserRow(user).vals[FlagField(TripleGroup(changes[i]))]
                            = changes[i][3]

\* The triples that no later triple of the list overrides
LastOfGroup(changes) ==
    {i \in 1..Len(changes) :
        \A j \in (i + 1)..Len(changes) :
            <<changes[j][1], changes[j][2]>> # <<changes[i][1], changes[i][2]>>}

\* C8 as amended: when every pair resolves, set_user_access_rights sets the
\* user's flag in_group_<group id> to the boolean of the last triple of the
\* list that names the group (in_group_0 for a triple that names no group),
\* using one write to the user that holds these flags and no other field.
C8_LastTripleWins ==
    (last.op = "set_user_access_rights" /\ result.exc = NoError) =>
        LET user == last.args[1]
            changes == last.args[2]
            w == At(calls, "write")
        IN /\ Cardinality(w) = 1
           /\ \A k \in w :
                 /\ calls[k].model = "res.users"
                 /\ calls[k].ids = <<user>>
                 /\ DOMAIN calls[k].arg =
                        {FlagField(TripleGroup(changes[i])) : i \in 1..Len(changes)}
                 /\ \A i \in LastOfGroup(changes) :
                        calls[k].arg[FlagField(TripleGroup(changes[i]))] = changes[i][3]
           /\ \A i \in LastOfGroup(changes) :
                 /\ FlagField(TripleGroup(changes[i])) \in DOMAIN UserRow(user).vals
                 /\ UserRow(user).vals[FlagField(TripleGroup(changes[i]))]
                        = changes[i][3]

\* A group was named twice with different booleans; the later one stands
C8_Witness ==
    /\ last.op = "set_user_access_rights"
    /\ result.exc = NoError
    /\ last.args[2] = << <<"Technical Settings", "Addresses in Sales Orders", False>>,
                         <<"Usability", "Technical Settings", True>>,
                         <<"Technical Settings", "Addresses in Sales Orders", True>> >>
    /\ UserRow(last.args[1]).vals["in_group_4"] = True
    /\ UserRow(last.args[1]).vals["in_group_5"] = True

\* The Sales groups with a name
SalesGroups(name) ==
    {r \in db["res.groups"] :
        r.vals["category_id.name"] = "Sales" /\ r.vals["name"] = name}

\* The group name the crm module uses for a level of the sale module
CrmName(level) ==
    CASE level = "See all Leads" -> "User: All Leads"
      [] level = "See Own Leads" -> "User: Own Leads Only"
      [] level = "Manager" -> "Manager"
      [] level = PyFalse -> PyFalse

\* The group searches of the call made last, in order, and the group name
\* each one asks for
Searches == SortedSeq(At(calls, "search"))
SearchedName(i) == calls[Searches[i]].arg[2][3]

\* How an attempt to select a group that n rows carry ends
AttemptEnds(n) ==
    /\ n = 1 => result.exc = NoError /\ Cardinality(At(calls, "write")) = 1
    /\ n = 0 => result.exc = NoRecordsError /\ At(calls, "write") = {}
    /\ n > 1 => result.exc = TooManyRecordsError /\ At(calls, "write") = {}

\* C9: select_sale_user_level first looks for the Sales group with the given
\* name; only when that signals NoRecordsError does it look again, for the
\* mapped name; TooManyRecordsError from the first attempt reaches the caller
\* with no second attempt; the user is written at most once.
C9_FallbackOnNoRecords ==
    last.op = "select_sale_user_level" =>
        LET level == last.args[2]
            n1 == Cardinality(SalesGroups(level))
        IN /\ Cardinality(At(calls, "write")) <= 1
           /\ \A k \in At(calls, "write") :
                 calls[k].model = "res.users" /\ calls[k].ids = <<last.args[1]>>
           /\ IF ~TruthyName(level)
              THEN Len(Searches) = 0 /\ AttemptEnds(1)
              ELSE /\ Len(Searches) >= 1
                   /\ SearchedName(1) = level
                   /\ n1 > 0 => Len(Searches) = 1 /\ AttemptEnds(n1)
                   /\ n1 = 0 => /\ Len(Searches) = 2
                                /\ SearchedName(2) = CrmName(level)
                                /\ AttemptEnds(Cardinality(SalesGroups(CrmName(level))))

\* The first name was not found, the mapped name was, and the user got the
\* level of that group
C9_Witness ==
    /\ last = [op |-> "select_sale_user_level", args |-> <<2, "See Own Leads">>]
    /\ SalesGroups("See Own Leads") = {}
    /\ Len(Searches) = 2
    /\ result.exc = NoError
    /\ UserRow(2).vals["sel_groups_1_2_3"] = 1

\* The positions of the call record where a lookup signalled a condition
LookupRaises ==
    {i \in At(calls, "raise") : calls[i].model \in {NoRecordsError, TooManyRecordsError}}

SearchesAfter(i) == {j \in At(calls, "search") : j > i}
SearchesBefore(i) == {j \in At(calls, "search") : j < i}

\* C10 as stated: in no operation is a lookup that signalled NoRecordsError
\* or TooManyRecordsError followed by another lookup, and the condition
\* reaches the caller.
C10_NoRetryAnywhere ==
    \A i \in LookupRaises :
        SearchesAfter(i) = {} /\ result.exc = calls[i].model

\* The NoRecordsError of the first attempt of select_sale_user_level
FirstAttemptNoRecords(i) ==
    /\ last.op = "select_sale_user_level"
    /\ calls[i].model = NoRecordsError
    /\ Cardinality(SearchesBefore(i)) = 1

\* C10 as amended: a lookup that signalled NoRecordsError or
\* TooManyRecordsError is followed by no other lookup and the condition
\* reaches the caller, in every operation but one: select_sale_user_level
\* catches the NoRecordsError of its first attempt and makes exactly one
\* more lookup, with the mapped group name.
C10_NoRetryButSaleLevel ==
    \A i \in LookupRaises :
        IF FirstAttemptNoRecords(i)
        THEN Cardinality(SearchesAfter(i)) = 1
        ELSE SearchesAfter(i) = {} /\ result.exc = calls[i].model

\* The first of two triples was not found: the second was not looked up
C10_Witness ==
    /\ last.op = "set_user_access_rights"
    /\ Len(last.args[2]) = 2
    /\ LookupRaises = {2}
    /\ Len(calls) = 2
    /\ result.exc = NoRecordsError

\* C11 for one call of set_settings(model, changes, company)
C11_Step(model, changes, company) ==
    Cardinality(InScope(db[model], company)) > 1 =>
        /\ result'.exc = TooManyRecordsError
        /\ db' = db
        /\ seq' = seq
        /\ unconf' = unconf
        /\ At(calls', "create") = {}
        /\ At(calls', "write") = {}
        /\ At(calls', "execute") = {}

\* C11: when more than one settings row is in the scope, set_settings raises
\* TooManyRecordsError and leaves the host as it was: it creates no row,
\* writes to no row and executes nothing.
C11_TooManyLeavesHost ==
    [][Called(SettingsOps) =>
          C11_Step(last'.args[1], last'.args[2], last'.args[3])]_vars

\* A call found two settings rows in its scope and raised
C11_Witness ==
    /\ last.op \in SettingsOps
    /\ Cardinality(InScope(db[last.args[1]], last.args[3])) = 2
    /\ Len(calls) = 2
    /\ calls[1].op = "search" /\ Len(calls[1].ids) = 2
    /\ result.exc = TooManyRecordsError

\* The positions of the record where a library call was entered
Entered == At(calls, "call")

\* Every call of the script so far is for the same settings model and passes
\* the same company
C12_SameModelAndCompany ==
    \A i, j \in Entered :
        /\ calls[i].arg.model = calls[j].arg.model
        /\ calls[i].arg.company = calls[j].arg.company

\* The changes of the call entered at i name another company than the one
\* the call passes
C12_NamesOtherCompany(i) ==
    /\ calls[i].arg.company # None
    /\ "company_id" \in DOMAIN calls[i].arg.changes
    /\ calls[i].arg.changes["company_id"] # calls[i].arg.company

\* One settings row of the model exists, the one the first call created;
\* every later call wrote to it; every call executed it; nothing was raised
C12_OneRecord ==
    LET model == calls[1].arg.model
        first == InitSeq[model]
    IN /\ \E r \in db[model] : db[model] = {r} /\ r.id = first
       /\ At(calls, "raise") = {}
       /\ ~IsInstance(result.exc, WrongNumberOfRecordsError)
       /\ Len(calls) = 4 * ncalls
       /\ \A n \in 1..ncalls :
             /\ calls[4 * n - 3].op = "call"
             /\ calls[4 * n - 2].op = "search"
             /\ calls[4 * n - 2].model = model
             /\ calls[4 * n - 1].op = (IF n = 1 THEN "create" ELSE "write")
             /\ calls[4 * n - 1].model = model
             /\ calls[4 * n - 1].ids = <<first>>
             /\ calls[4 * n].op = "execute"
             /\ calls[4 * n].model = model
             /\ calls[4 * n].ids = <<first>>

\* C12 as claimed: from no settings row of a model, after any calls of
\* set_settings on that model that all pass the same company, exactly one row
\* of the model exists, created by the first call and updated and executed by
\* every later one, and no call raised a wrong-number-of-records condition.
C12_AlwaysOneRecord ==
    (ncalls > 0 /\ C12_SameModelAndCompany) => C12_OneRecord

\* C12 as the code has it: the same, provided no call after the first has
\* changes that set company_id to another company than the one it passes.
C12_OneRecordWhileInScope ==
    (/\ ncalls > 0
     /\ C12_SameModelAndCompany
     /\ \A i \in Entered \ {1} : ~C12_NamesOtherCompany(i))
        => C12_OneRecord

\* Three calls for company 1 were made, the first naming company 2 in its
\* changes, and the one row was written to twice
C12_Witness ==
    /\ ncalls = 3
    /\ C12_SameModelAndCompany
    /\ calls[1].arg.company = 1
    /\ C12_NamesOtherCompany(1)
    /\ \A i \in Entered \ {1} : ~C12_NamesOtherCompany(i)
    /\ Cardinality(At(calls, "write")) = 2
    /\ Cardinality(db["account.config.settings"]) = 1

\* The companies the settings rows of a model belong to
CompaniesOf(rows) ==
    {r.vals["company_id"] : r \in {x \in rows : "company_id" \in DOMAIN x.vals}}

\* C13 for one call of set_settings(model, changes) with no company
C13_Step(model, changes) ==
    /\ calls'[1].op = "search"
    /\ calls'[1].model = model
    /\ calls'[1].arg = <<>>
    /\ {calls'[1].ids[i] : i \in 1..Len(calls'[1].ids)} = {r.id : r \in db[model]}
    /\ \A old \in db[model] :
          db[model] = {old} =>
              /\ result'.exc = NoError
              /\ At(calls', "create") = {}
              /\ At(calls', "write") = {2}
              /\ calls'[2].ids = <<old.id>>
              /\ At(calls', "execute") = {3}
              /\ calls'[3].ids = <<old.id>>
              /\ {r.id : r \in db'[model]} = {old.id}
              /\ seq' = seq
    /\ Cardinality(CompaniesOf(db[model])) >= 2 =>
          /\ result'.exc = TooManyRecordsError
          /\ db' = db
          /\ seq' = seq

\* C13: a call of set_settings with no company searches with the empty
\* filter, so every row of the settings model is a match whatever its
\* company_id.  With exactly one row, even one of a company, that row is
\* updated and executed and no row is created; with rows of two different
\* companies the call raises TooManyRecordsError.
C13_NoCompanyMatchesAll ==
    [][(Called(SettingsOps) /\ last'.args[3] = None) =>
          C13_Step(last'.args[1], last'.args[2])]_vars

\* A call with no company updated the one row, which is of company 2 and not
\* of the default company
C13_Witness ==
    /\ last.op \in SettingsOps
    /\ last.args[3] = None
    /\ last.args[2] = [default_sale_tax |-> 4, default_purchase_tax |-> 2]
    /\ At(calls, "write") = {2}
    /\ At(calls, "create") = {}
    /\ \E r \in db["account.config.settings"] :
          /\ db["account.config.settings"] = {r}
          /\ <<r.id>> = calls[2].ids
          /\ r.vals["company_id"] = 2
          /\ r.vals["company_id"] # HostDefaults("account.config.settings")["company_id"]
          /\ r.vals["default_sale_tax"] = 4

\* The companies passed by the calls of the script so far
Passed == {calls[i].arg.company : i \in Entered}

\* The position where the most recent call for company c was entered
LastFor(c) ==
    CHOOSE i \in Entered :
        /\ calls[i].arg.company = c
        /\ \A j \in Entered : calls[j].arg.company = c => j <= i

\* The id of the field res.partner.property_product_pricelist
PricelistField ==
    CHOOSE f \in {r.id : r \in {x \in FieldRows :
                      x.vals = [model |-> "res.partner",
                                name |-> "property_product_pricelist"]}} : TRUE

\* The reference to a pricelist as it is written
PricelistRef(p) ==
    CASE p = 3 -> "product.pricelist,3"
      [] p = 12 -> "product.pricelist,12"

\* The default customer pricelist properties of company c
DefaultsOf(rows, c) ==
    {r \in rows : /\ r.vals["company_id"] = c
                  /\ r.vals["fields_id"] = PricelistField
                  /\ r.vals["res_id"] = False}

\* C14: after any calls of set_default_customer_sale_pricelist, every company
\* that was passed has exactly one ir.property row with its company_id, the
\* id of the field res.partner.property_product_pricelist and res_id False,
\* whose value_reference is 'product.pricelist,<id>' for the pricelist of the
\* most recent call for that company; the property rows of the other
\* companies are as they were.
C14_OneDefaultPerCompany ==
    /\ \A c \in Passed :
          \E r \in db["ir.property"] :
              /\ DefaultsOf(db["ir.property"], c) = {r}
              /\ r.vals["value_reference"] = PricelistRef(calls[LastFor(c)].arg.pricelist)
    /\ \A c \in Companies \ Passed :
          {r \in db["ir.property"] : r.vals["company_id"] = c}
              = {r \in PropertyRows : r.vals["company_id"] = c}

\* Company 1 was given pricelist 3 and later pricelist 12, company 2 was
\* given pricelist 3 in between, and each now has its most recent one
C14_Witness ==
    /\ ncalls = 3
    /\ calls[1].arg = [company |-> 1, pricelist |-> 3]
    /\ last.args = <<1, 12>>
    /\ Passed = {1, 2}
    /\ At(calls, "unlink") # {}
    /\ \E r \in DefaultsOf(db["ir.property"], 1) :
          r.vals["value_reference"] = "product.pricelist,12"
    /\ \E r \in DefaultsOf(db["ir.property"], 2) :
          r.vals["value_reference"] = "product.pricelist,3"

\* The operations that look records up and then apply what they found
LookupThenApplyOps == {"set_default_taxes", "enable_multi_currency", "set_user_access_rights"}

\* The positions of the record holding a host call that changes a row
Changes(cs) ==
    At(cs, "create") \cup At(cs, "write") \cup At(cs, "execute") \cup At(cs, "unlink")

\* C15 for one call
C15_Step ==
    /\ \A i \in At(calls', "search"), j \in Changes(calls') : i < j
    /\ \A i \in At(calls', "raise") :
          calls'[i].model \in {NoRecordsError, TooManyRecordsError} =>
              /\ i = Len(calls')
              /\ result'.exc = calls'[i].model
    /\ result'.exc \in {NoRecordsError, TooManyRecordsError} =>
          /\ Changes(calls') = {}
          /\ db' = db
          /\ seq' = seq
          /\ unconf' = unconf

\* C15: in Config.set_default_taxes, enable_multi_currency and
\* Config.set_user_access_rights every search comes before every create,
\* write and execute; a NoRecordsError or TooManyRecordsError raised by a
\* lookup ends the call with that condition, and then no row of any model
\* was changed by the call.
C15_LookupsBeforeChanges ==
    [][Called(LookupThenApplyOps) => C15_Step]_vars

\* set_default_taxes found the sales tax and then two purchase taxes
C15_Witness ==
    /\ last.op = "set_default_taxes"
    /\ Len(calls) = 3
    /\ calls[1].op = "search" /\ Len(calls[1].ids) = 1
    /\ calls[2].op = "search" /\ Len(calls[2].ids) = 2
    /\ calls[3].op = "raise"
    /\ result.exc = TooManyRecordsError

=============================================================================
